---- MODULE Spec2Model ----
(***************************************************************************)
(* The slave interface of cse (include/cse/slave.hpp) and the exception    *)
(* type of cse (include/cse/exception.hpp).                                *)
(*                                                                         *)
(* slave_instance is an interface: what the header fixes is the call       *)
(* sequence of its class comment, the pre- and postconditions of each      *)
(* method and the rule that a method that throws leaves the instance       *)
(* broken.  The model is one slave instance together with the caller that  *)
(* drives it through that call sequence.  The slave is a table of          *)
(* variables per kind; each call either returns or throws.                 *)
(***************************************************************************)
EXTENDS Integers, Sequences, FiniteSets, TLC

\* ------------------------------------------------------------------ bounds
\* Latest time point the caller uses (time points are 0..MaxTime).
MaxTime == 3
\* Latest start time handed to setup().
MaxStart == 1
\* Longest variables/values array handed to a bulk get or set.
MaxLen == 2

\* The time steps each of several slaves is taken through.
MaxSteps == 1

\* ------------------------------------------------- exception.hpp: errc
\* enum class errc, in declaration order; the position is the integral value.
errc ==
    << "success", "bad_file", "unsupported_feature",
       "dl_load_error", "model_error", "zip_error" >>

errc_value(e) == (CHOOSE i \in 1..Len(errc) : errc[i] = e) - 1

\* The two categories an std::error_code of this program can carry.
error_category == "cse"
generic_category == "generic"

\* A make_error_code that builds a code of the generic category.
make_error_code_generic(e) == [category |-> generic_category, value |-> errc_value(e)]

\* std::error_code make_error_code(errc e)
make_error_code(e) == [category |-> error_category, value |-> errc_value(e)]

\* A code of std::generic_category with the integral value v.
generic_error_code(v) == [category |-> generic_category, value |-> v]

\* Text is a sequence of tokens.  The text of error_category() for a
\* condition: one fixed text per condition.
canonical_message(e) == << "cse", e >>

\* std::error_code::message(): the text its category gives for its value.
ec_message(ec) ==
    IF ec.category = error_category
        THEN canonical_message(errc[ec.value + 1])
        ELSE << "generic", ToString(ec.value) >>

\* error(ec) that leaves code_ value-initialised.
error_from_code_without_code(ec) ==
    [code |-> generic_error_code(0), what |-> ec_message(ec)]

\* error(std::error_code ec): runtime_error(ec.message()), code_(ec)
error_from_code(ec) == [code |-> ec, what |-> ec_message(ec)]

\* error(ec, msg) with the separator left out.
error_from_code_msg_no_separator(ec, msg) ==
    [code |-> ec, what |-> ec_message(ec) \o msg]

\* error(std::error_code ec, const std::string& msg):
\* runtime_error(ec.message() + ": " + msg), code_(ec)
error_from_code_msg(ec, msg) ==
    [code |-> ec, what |-> ec_message(ec) \o << ": " >> \o msg]

\* const std::error_code& code() const noexcept { return code_; }
code(e) == e.code

\* The constructor called with the arguments a: error(ec) or error(ec, msg).
new_error(a) ==
    IF a.with_msg THEN error_from_code_msg(a.code, a.msg)
                  ELSE error_from_code(a.code)

\* Constructor arguments: the code, and the message if one is given.
CtorArgs(ec, with_msg, msg) == [code |-> ec, msg |-> msg, with_msg |-> with_msg]

NoError == [code |-> generic_error_code(0), what |-> << >>]

\* std::error_code operator==: the same category and the same value.
code_equal(x, y) == x.category = y.category /\ x.value = y.value

\* Where a code comes from: make_error_code(e), or the generic code of the
\* same integral value as e.
CodeSources == { << c, errc[i] >> : c \in {"errc", "generic"}, i \in 1..Len(errc) }

code_of(src) ==
    IF src[1] = "errc" THEN make_error_code(src[2])
                       ELSE generic_error_code(errc_value(src[2]))

NoCmp == [equal |-> FALSE, lhs |-> << "none", "none" >>, rhs |-> << "none", "none" >>]
\* code() has not been called.
NoCode == [category |-> "none", value |-> 0]

NoArgs == CtorArgs(generic_error_code(0), FALSE, << "none" >>)

\* ------------------------------------------------------ slave.hpp: data
Kinds == { "real", "integer", "boolean", "string" }

\* The variables the slave has of each kind (its model description), as
\* variable_index values 0..n-1.
VariableIndices(kind) == IF kind = "real" THEN {0, 1} ELSE {0}

\* An index the caller may hand to a set call that names no variable.
UnknownIndex(kind) == IF kind = "real" THEN 2 ELSE 1

\* The values a variable of each kind can take.
ValuesOf(kind) ==
    CASE kind = "real"    -> {15, 25}
      [] kind = "integer" -> {1, 2}
      [] kind = "boolean" -> {FALSE, TRUE}
      [] kind = "string"  -> {"a", "b"}

\* Values of the kind's C++ type that no variable of the slave can take
\* (a real outside the range of the model).
InvalidValues(kind) == IF kind = "real" THEN {-5} ELSE {}

InitialValue(kind) ==
    CASE kind = "real"    -> 15
      [] kind = "integer" -> 1
      [] kind = "boolean" -> FALSE
      [] kind = "string"  -> "a"

\* time_point eternity: later than every time point.
Eternity == -1

\* a <= b on time points, b possibly eternity
time_leq(a, b) == b = Eternity \/ (a # Eternity /\ a <= b)

SeqsUpTo(S, n) == UNION { [1..k -> S] : k \in 0..n }

VARIABLES
    state,      \* lifecycle state of the instance
    startTime,  \* setup(): startTime
    stopTime,   \* setup(): stopTime
    vars,       \* vars[kind][index]: the value of each variable
    lastStep,   \* the most recent do_step call that returned, or NoStep
    prevStep,   \* the do_step call that returned before lastStep, or NoStep
    stepEnd,    \* the end of the last time step that was carried out, or NotStepped
    last,       \* the most recent call and its outcome
    calls,      \* the lifecycle calls that returned, in order
    exc,        \* the cse::error constructed last, or NoError
    ctor,       \* the constructor arguments exc was built from, or NoArgs
    cmp,        \* the last comparison of two error codes, or NoCmp
    signal,     \* the last call made out of order and the state it met, or NoSignal
    seen,       \* what the last call of code() on exc returned, or NoCode
    insts,      \* insts[i]: the state, time and variable of slave instance i
    inflight    \* inflight[w]: the call worker w has made and not got back, or NoFlight

slaveVars ==
    << state, startTime, stopTime, vars, lastStep, prevStep, stepEnd, last, calls,
       exc, ctor >>

\* The variables no method of the slave touches.
otherVars == << cmp, signal, seen, insts, inflight >>

allVars == << slaveVars, otherVars >>

\* No time step has been carried out yet.
NotStepped == -1

NoStep == [currentT |-> -1, deltaT |-> 0, result |-> TRUE]

\* A record of one call: the method, its arguments (the variable kind and
\* the two arrays of a bulk get or set, the time arguments of setup and
\* do_step), what it returned and whether it threw.
Call(op, kind, variables, values, times, result, raised) ==
    [ kind |-> kind, op |-> op, raised |-> raised, result |-> result,
      times |-> times, values |-> values, variables |-> variables ]

\* Several slave instances of one execution and the workers of the
\* orchestrator that drive them.
Instances == { "s1", "s2" }
Workers == { "w1", "w2" }

\* A worker with no call in flight.
NoFlight == [inst |-> "none", op |-> "none"]

\* A slave instance as constructed: no time step made, no error thrown.
NewInstance ==
    [ code |-> generic_error_code(0), state |-> "unconfigured", steps |-> 0,
      value |-> InitialValue("real") ]

\* No call was made out of order.
NoSignal == << "none", "none" >>

NoCall == Call("none", "none", << >>, << >>, << >>, TRUE, FALSE)

Init ==
    /\ state = "unconfigured"
    /\ startTime = 0
    /\ stopTime = Eternity
    /\ vars = [k \in Kinds |-> [i \in VariableIndices(k) |-> InitialValue(k)]]
    /\ lastStep = NoStep
    /\ prevStep = NoStep
    /\ stepEnd = NotStepped
    /\ last = NoCall
    /\ calls = << >>
    /\ exc = NoError
    /\ ctor = NoArgs
    /\ cmp = NoCmp
    /\ signal = NoSignal
    /\ seen = NoCode
    /\ insts = [i \in Instances |-> NewInstance]
    /\ inflight = [w \in Workers |-> NoFlight]

\* ------------------------------------------------ slave.hpp: call sequence
Methods ==
    { "model_description", "setup", "get_variables", "set_variables",
      "start_simulation", "do_step", "end_simulation" }

\* A call sequence in which setup() may be called again at any time.
can_call_setup_again(op) ==
    CASE op = "setup"             -> state # "broken"
      [] op = "get_variables"     -> state \in {"initializing", "stepping"}
      [] op = "set_variables"     -> state \in {"initializing", "stepping"}
      [] op = "start_simulation"  -> state = "initializing"
      [] op = "do_step"           -> state = "stepping"
      [] op = "end_simulation"    -> state = "stepping"
      [] op = "model_description" -> state # "broken"

\* A call sequence in which variables are still read after a throw.
can_call_when_broken(op) ==
    CASE op = "setup"             -> state = "unconfigured"
      [] op = "get_variables"     -> state \in {"initializing", "stepping", "broken"}
      [] op = "set_variables"     -> state \in {"initializing", "stepping"}
      [] op = "start_simulation"  -> state = "initializing"
      [] op = "do_step"           -> state = "stepping"
      [] op = "end_simulation"    -> state = "stepping"
      [] op = "model_description" -> state # "broken"

\* A call sequence in which variables are read during initialisation only.
can_call_no_get_while_stepping(op) ==
    CASE op = "setup"             -> state = "unconfigured"
      [] op = "get_variables"     -> state = "initializing"
      [] op = "set_variables"     -> state \in {"initializing", "stepping"}
      [] op = "start_simulation"  -> state = "initializing"
      [] op = "do_step"           -> state = "stepping"
      [] op = "end_simulation"    -> state = "stepping"
      [] op = "model_description" -> state # "broken"

\* A call sequence in which do_step() is made before start_simulation().
can_call_step_early(op) ==
    CASE op = "setup"             -> state = "unconfigured"
      [] op = "get_variables"     -> state \in {"initializing", "stepping"}
      [] op = "set_variables"     -> state \in {"initializing", "stepping"}
      [] op = "start_simulation"  -> state = "initializing"
      [] op = "do_step"           -> state \in {"initializing", "stepping"}
      [] op = "end_simulation"    -> state = "stepping"
      [] op = "model_description" -> state # "broken"

\* The class comment: 1. setup, 2. set/get, 3. start_simulation,
\* 4. do_step/get/set, 5. end_simulation; after a throw no method is called.
can_call(op) ==
    CASE op = "setup"             -> state = "unconfigured"
      [] op = "get_variables"     -> state \in {"initializing", "stepping"}
      [] op = "set_variables"     -> state \in {"initializing", "stepping"}
      [] op = "start_simulation"  -> state = "initializing"
      [] op = "do_step"           -> state = "stepping"
      [] op = "end_simulation"    -> state = "stepping"
      [] op = "model_description" -> state # "broken"

\* ----------------------------------------------------------- operations
\* A model_description() that forgets the steps made so far.
model_description_forgets_steps ==
    /\ can_call("model_description")
    /\ last' = Call("model_description", "none", << >>, << >>, << >>, TRUE, FALSE)
    /\ lastStep' = NoStep
    /\ prevStep' = NoStep
    /\ UNCHANGED << state, startTime, stopTime, vars, stepEnd, calls, exc, ctor >>
    /\ UNCHANGED otherVars

\* virtual cse::model_description model_description() const
model_description ==
    /\ can_call("model_description")
    /\ last' = Call("model_description", "none", << >>, << >>, << >>, TRUE, FALSE)
    /\ UNCHANGED << state, startTime, stopTime, vars, lastStep, prevStep, stepEnd, calls, exc, ctor >>
    /\ UNCHANGED otherVars

\* virtual void setup(slaveName, executionName, startTime, stopTime, ...)
setup(start, stop) ==
    /\ can_call("setup")
    /\ state' = "initializing"
    /\ startTime' = start
    /\ stopTime' = stop
    /\ calls' = Append(calls, "setup")
    /\ last' = Call("setup", "none", << >>, << >>, << start, stop >>, TRUE, FALSE)
    /\ UNCHANGED << vars, lastStep, prevStep, stepEnd, exc, ctor >>
    /\ UNCHANGED otherVars

\* virtual void start_simulation()
start_simulation ==
    /\ can_call("start_simulation")
    /\ state' = "stepping"
    /\ calls' = Append(calls, "start_simulation")
    /\ last' = Call("start_simulation", "none", << >>, << >>, << >>, TRUE, FALSE)
    /\ UNCHANGED << startTime, stopTime, vars, lastStep, prevStep, stepEnd, exc, ctor >>
    /\ UNCHANGED otherVars

\* An end_simulation() that closes the time interval at the time reached.
end_simulation_closes_interval ==
    /\ can_call("end_simulation")
    /\ state' = "terminated"
    /\ stopTime' = IF stepEnd = NotStepped THEN startTime ELSE stepEnd
    /\ calls' = Append(calls, "end_simulation")
    /\ last' = Call("end_simulation", "none", << >>, << >>, << >>, TRUE, FALSE)
    /\ UNCHANGED << startTime, vars, lastStep, prevStep, stepEnd, exc, ctor >>
    /\ UNCHANGED otherVars

\* virtual void end_simulation()
end_simulation ==
    /\ can_call("end_simulation")
    /\ state' = "terminated"
    /\ calls' = Append(calls, "end_simulation")
    /\ last' = Call("end_simulation", "none", << >>, << >>, << >>, TRUE, FALSE)
    /\ UNCHANGED << startTime, stopTime, vars, lastStep, prevStep, stepEnd, exc, ctor >>
    /\ UNCHANGED otherVars

\* The interval check without the stop time.
step_in_interval_no_stop(currentT, deltaT) ==
    time_leq(startTime, currentT)

\* do_step(): "currentT is greater than or equal to the start time, and
\* currentT+deltaT is less than or equal to the stop time".
step_in_interval(currentT, deltaT) ==
    /\ time_leq(startTime, currentT)
    /\ time_leq(currentT + deltaT, stopTime)

\* Steps that may start anywhere.
step_continues_anywhere(currentT, deltaT) == TRUE

\* Steps that are never retried: a step follows only a step that succeeded.
step_continues_no_retry(currentT, deltaT) ==
    \/ lastStep = NoStep
    \/ /\ lastStep # NoStep
       /\ lastStep.result
       /\ currentT = lastStep.currentT + lastStep.deltaT

\* do_step(): "If this is not the first time step, it can be assumed that
\* the previous time step ended at currentT"; a step that returned false was
\* not carried out and "may be retried with a shorter time step".
step_continues(currentT, deltaT) ==
    \/ lastStep = NoStep
    \/ /\ lastStep # NoStep
       /\ lastStep.result
       /\ currentT = lastStep.currentT + lastStep.deltaT
    \/ /\ lastStep # NoStep
       /\ ~lastStep.result
       /\ currentT = lastStep.currentT
       /\ deltaT < lastStep.deltaT

\* A do_step() whose false result leaves the instance broken.
do_step_false_breaks(currentT, deltaT, ok) ==
    /\ can_call("do_step")
    /\ step_in_interval(currentT, deltaT)
    /\ step_continues(currentT, deltaT)
    /\ lastStep' = [currentT |-> currentT, deltaT |-> deltaT, result |-> ok]
    /\ prevStep' = lastStep
    /\ stepEnd' = IF ok THEN currentT + deltaT ELSE stepEnd
    /\ state' = IF ok THEN state ELSE "broken"
    /\ last' = Call("do_step", "none", << >>, << >>, << currentT, deltaT >>, ok, FALSE)
    /\ UNCHANGED << startTime, stopTime, vars, calls, exc, ctor >>
    /\ UNCHANGED otherVars

\* A do_step() that moves the time on although the step was not carried out.
do_step_false_advances(currentT, deltaT, ok) ==
    /\ can_call("do_step")
    /\ step_in_interval(currentT, deltaT)
    /\ step_continues(currentT, deltaT)
    /\ lastStep' = [currentT |-> currentT, deltaT |-> deltaT, result |-> ok]
    /\ prevStep' = lastStep
    /\ stepEnd' = currentT + deltaT
    /\ last' = Call("do_step", "none", << >>, << >>, << currentT, deltaT >>, ok, FALSE)
    /\ UNCHANGED << state, startTime, stopTime, vars, calls, exc, ctor >>
    /\ UNCHANGED otherVars

\* virtual bool do_step(time_point currentT, time_duration deltaT);
\* ok is what the model calculations of the slave come to.
do_step(currentT, deltaT, ok) ==
    /\ can_call("do_step")
    /\ step_in_interval(currentT, deltaT)
    /\ step_continues(currentT, deltaT)
    /\ lastStep' = [currentT |-> currentT, deltaT |-> deltaT, result |-> ok]
    /\ prevStep' = lastStep
    /\ stepEnd' = IF ok THEN currentT + deltaT ELSE stepEnd
    /\ last' = Call("do_step", "none", << >>, << >>, << currentT, deltaT >>, ok, FALSE)
    /\ UNCHANGED << state, startTime, stopTime, vars, calls, exc, ctor >>
    /\ UNCHANGED otherVars

\* A get that fills the values array back to front.
get_values_reversed(store, kind, variables) ==
    [k \in 1..Len(variables) |-> store[kind][variables[Len(variables) + 1 - k]]]

\* get_<type>_variables(): "the values array will be filled with the values
\* of the variables specified in variables, in the same order".
get_values(store, kind, variables) ==
    [k \in 1..Len(variables) |-> store[kind][variables[k]]]

\* A get that resets the variables it has read.
get_variables_clears(kind, variables) ==
    /\ can_call("get_variables")
    /\ last' = Call("get_variables", kind, variables,
                    get_values(vars, kind, variables), << >>, TRUE, FALSE)
    /\ vars' = [vars EXCEPT ![kind] =
                    [i \in VariableIndices(kind) |->
                        IF \E k \in 1..Len(variables) : variables[k] = i
                        THEN InitialValue(kind) ELSE vars[kind][i]]]
    /\ UNCHANGED << state, startTime, stopTime, lastStep, prevStep, stepEnd, calls, exc, ctor >>
    /\ UNCHANGED otherVars

\* virtual void get_<type>_variables(variables, values) const
get_variables(kind, variables) ==
    /\ can_call("get_variables")
    /\ last' = Call("get_variables", kind, variables,
                    get_values(vars, kind, variables), << >>, TRUE, FALSE)
    /\ UNCHANGED << state, startTime, stopTime, vars, lastStep, prevStep, stepEnd, calls, exc, ctor >>
    /\ UNCHANGED otherVars

\* An entry of a set call the slave can apply: it names a variable of the
\* slave and carries a value of the variable's type.
entry_valid(kind, index, value) ==
    index \in VariableIndices(kind) /\ value \in ValuesOf(kind)

\* A set that applies nothing when one entry is invalid.
set_values_all_or_nothing(store, kind, variables, values, k) ==
    IF \E j \in 1..Len(variables) : ~entry_valid(kind, variables[j], values[j])
        THEN store
        ELSE [kd \in Kinds |-> [i \in VariableIndices(kd) |->
                IF kd = kind /\ \E j \in 1..Len(variables) : variables[j] = i
                    THEN values[CHOOSE j \in 1..Len(variables) :
                            /\ variables[j] = i
                            /\ \A m \in 1..Len(variables) : variables[m] = i => m <= j]
                    ELSE store[kd][i]]]

\* A set that applies its first entry only.
set_values_first_only(store, kind, variables, values, k) ==
    IF Len(variables) = 0 \/ ~entry_valid(kind, variables[1], values[1])
        THEN store
        ELSE [store EXCEPT ![kind][variables[1]] = values[1]]

\* set_<type>_variables(): "set the value of each variable specified in the
\* variables array to the value given in the corresponding element of
\* values", entries k..end, in array order; invalid ones "simply ignored".
RECURSIVE set_values(_, _, _, _, _)
set_values(store, kind, variables, values, k) ==
    IF k > Len(variables) THEN store
    ELSE set_values(
            IF entry_valid(kind, variables[k], values[k])
                THEN [store EXCEPT ![kind][variables[k]] = values[k]]
                ELSE store,
            kind, variables, values, k + 1)

\* set_<type>_variables() returns "true if successful and false in the case
\* of non-fatal problems (e.g. if one or more values were invalid ...)".
set_result(kind, variables, values) ==
    \A k \in 1..Len(variables) : entry_valid(kind, variables[k], values[k])

\* A set call carried out whatever the sizes of its two arrays.
set_variables_any_length(kind, variables, values) ==
    /\ can_call("set_variables")
    /\ vars' = set_values(vars, kind, variables, values, 1)
    /\ last' = Call("set_variables", kind, variables, values, << >>,
                    set_result(kind, variables, values), FALSE)
    /\ UNCHANGED << state, startTime, stopTime, lastStep, prevStep, stepEnd, calls, exc, ctor >>
    /\ UNCHANGED otherVars

\* virtual bool set_<type>_variables(variables, values)
set_variables(kind, variables, values) ==
    /\ can_call("set_variables")
    /\ Len(variables) = Len(values)
    /\ vars' = set_values(vars, kind, variables, values, 1)
    /\ last' = Call("set_variables", kind, variables, values, << >>,
                    set_result(kind, variables, values), FALSE)
    /\ UNCHANGED << state, startTime, stopTime, lastStep, prevStep, stepEnd, calls, exc, ctor >>
    /\ UNCHANGED otherVars

\* "Any method may throw an exception, after which the slave instance is
\* considered to be broken and no further method calls will be made."
method_throws(op, a) ==
    /\ can_call(op)
    /\ state' = "broken"
    /\ exc' = new_error(a)
    /\ ctor' = a
    /\ last' = Call(op, "none", << >>, << >>, << >>, FALSE, TRUE)
    /\ UNCHANGED << startTime, stopTime, vars, lastStep, prevStep, stepEnd, calls >>
    /\ UNCHANGED otherVars

\* throw cse::error(...) anywhere in the library: the exception object is
\* constructed from the arguments a; no slave is involved.
construct_error(a) ==
    /\ exc' = new_error(a)
    /\ ctor' = a
    /\ UNCHANGED << state, startTime, stopTime, vars, lastStep, prevStep, stepEnd, last, calls >>
    /\ UNCHANGED otherVars

\* e.code() on the error constructed last.
read_code ==
    /\ ctor # NoArgs
    /\ seen' = code(exc)
    /\ UNCHANGED slaveVars
    /\ UNCHANGED << cmp, signal, insts, inflight >>

\* code_of(x) == code_of(y), as any caller of the library compares codes.
compare_codes(x, y) ==
    /\ cmp' = [equal |-> code_equal(code_of(x), code_of(y)), lhs |-> x, rhs |-> y]
    /\ UNCHANGED slaveVars
    /\ UNCHANGED << signal, seen, insts, inflight >>

\* A call outside the call sequence of the class comment. The slave answers
\* it with a contract-violation signal; the state it is left in is
\* unspecified (it stays as it was, or the slave is broken).
out_of_order_call(op, breaks) ==
    /\ state # "broken"
    /\ ~can_call(op)
    /\ signal' = << op, state >>
    /\ state' = IF breaks THEN "broken" ELSE state
    /\ last' = Call(op, "none", << >>, << >>, << >>, FALSE, breaks)
    /\ UNCHANGED << startTime, stopTime, vars, lastStep, prevStep, stepEnd, calls, exc, ctor >>
    /\ UNCHANGED << cmp, seen, insts, inflight >>

\* The call sequence of the class comment for one of several instances.
inst_can_call(inst, op) ==
    CASE op = "setup"             -> inst.state = "unconfigured"
      [] op = "set_variables"     -> inst.state \in {"initializing", "stepping"}
      [] op = "start_simulation"  -> inst.state = "initializing"
      [] op = "do_step"           -> inst.state = "stepping" /\ inst.steps < MaxSteps
      [] op = "end_simulation"    -> inst.state = "stepping"

\* What a call does to the instance it is made on: outcome is "true",
\* "false" (do_step and set only) or "throw".
inst_apply(inst, op, outcome) ==
    CASE outcome = "throw" ->
            [inst EXCEPT !.state = "broken", !.code = make_error_code("model_error")]
      [] outcome = "false" -> inst
      [] outcome = "true" /\ op = "setup" -> [inst EXCEPT !.state = "initializing"]
      [] outcome = "true" /\ op = "set_variables" ->
            [inst EXCEPT !.value = IF @ = 15 THEN 25 ELSE 15]
      [] outcome = "true" /\ op = "start_simulation" -> [inst EXCEPT !.state = "stepping"]
      [] outcome = "true" /\ op = "do_step" -> [inst EXCEPT !.steps = @ + 1]
      [] outcome = "true" /\ op = "end_simulation" -> [inst EXCEPT !.state = "terminated"]

\* Worker w calls op on instance i. The caller serialises the calls into one
\* instance: no other call is in flight on i.
begin_call(w, i, op) ==
    /\ inflight[w] = NoFlight
    /\ \A v \in Workers : inflight[v].inst # i
    /\ inst_can_call(insts[i], op)
    /\ inflight' = [inflight EXCEPT ![w] = [inst |-> i, op |-> op]]
    /\ UNCHANGED insts
    /\ UNCHANGED slaveVars
    /\ UNCHANGED << cmp, signal, seen >>

\* A call that writes through to every instance of the execution.
end_call_writes_all(w, outcome) ==
    /\ inflight[w] # NoFlight
    /\ outcome = "false" => inflight[w].op \in {"do_step", "set_variables"}
    /\ insts' = [i \in Instances |-> inst_apply(insts[inflight[w].inst], inflight[w].op, outcome)]
    /\ inflight' = [inflight EXCEPT ![w] = NoFlight]
    /\ UNCHANGED slaveVars
    /\ UNCHANGED << cmp, signal, seen >>

\* The call of worker w completes: it returns or throws, and has acted on
\* the instance it was made on.
end_call(w, outcome) ==
    /\ inflight[w] # NoFlight
    /\ outcome = "false" => inflight[w].op \in {"do_step", "set_variables"}
    /\ insts' = [insts EXCEPT ![inflight[w].inst] = inst_apply(@, inflight[w].op, outcome)]
    /\ inflight' = [inflight EXCEPT ![w] = NoFlight]
    /\ UNCHANGED slaveVars
    /\ UNCHANGED << cmp, signal, seen >>

\* ------------------------------------------------------ inputs of the calls
StartTimes == 0..MaxStart
StopTimes(start) == (start..MaxTime) \cup {Eternity}
TimePoints == 0..MaxTime
Durations == 1..MaxTime

SetIndices(kind) == VariableIndices(kind) \cup {UnknownIndex(kind)}

\* The (index, value) entries of the bulk set calls: every value for every
\* variable, one entry whose index names no variable and one entry per
\* invalid value.
SetEntries(kind) ==
    (VariableIndices(kind) \X ValuesOf(kind))
        \cup { << UnknownIndex(kind), InitialValue(kind) >> }
        \cup { << 0, v >> : v \in InvalidValues(kind) }

\* The exceptions a slave throws: cse::error with a code of this library,
\* with and without a message, and one with a generic code.
ThrownErrors ==
    { CtorArgs(make_error_code("model_error"), FALSE, << >>),
      CtorArgs(make_error_code("unsupported_feature"), TRUE, << "ctx" >>),
      CtorArgs(generic_error_code(5), FALSE, << >>) }

\* Every code of this library and the generic codes of the same values.
ErrorCodes ==
    { make_error_code(errc[i]) : i \in 1..Len(errc) }
        \cup { generic_error_code(v) : v \in 0..(Len(errc) - 1) }

\* The messages handed to error(ec, msg): texts of up to MaxLen tokens,
\* the empty text and texts that repeat the separator included.
Messages == SeqsUpTo({ "ctx", ": ", "cse" }, MaxLen)

\* The life of one slave over every time interval and every step within
\* MaxTime; the bulk calls carry one entry each.
Next ==
    \/ model_description
    \/ \E start \in StartTimes : \E stop \in StopTimes(start) : setup(start, stop)
    \/ start_simulation
    \/ \E t \in TimePoints : \E d \in Durations : \E ok \in BOOLEAN :
            t + d <= MaxTime /\ do_step(t, d, ok)
    \/ end_simulation
    \/ \E kind \in Kinds : \E i \in VariableIndices(kind) :
            get_variables(kind, << i >>)
    \/ \E kind \in Kinds : \E i \in SetIndices(kind) : \E v \in ValuesOf(kind) :
            set_variables(kind, << i >>, << v >>)
    \/ \E op \in Methods : \E a \in ThrownErrors : method_throws(op, a)

Spec == Init /\ [][Next]_slaveVars

\* The life of one slave over every bulk call of up to MaxLen entries; the
\* run has no stop time and steps of one time unit.
NextIO ==
    \/ model_description
    \/ setup(0, Eternity)
    \/ start_simulation
    \/ \E ok \in BOOLEAN : do_step(0, 1, ok)
    \/ end_simulation
    \/ \E kind \in Kinds : \E variables \in SeqsUpTo(VariableIndices(kind), MaxLen) :
            get_variables(kind, variables)
    \/ \E kind \in Kinds : \E entries \in SeqsUpTo(SetEntries(kind), MaxLen) :
            set_variables(kind,
                [k \in 1..Len(entries) |-> entries[k][1]],
                [k \in 1..Len(entries) |-> entries[k][2]])
    \/ \E op \in Methods : \E a \in ThrownErrors : method_throws(op, a)

SpecIO == Init /\ [][NextIO]_slaveVars

\* The construction of cse::error values from every code and message.
NextError ==
    \/ \E ec \in ErrorCodes : construct_error(CtorArgs(ec, FALSE, << >>))
    \/ \E ec \in ErrorCodes : \E msg \in Messages :
            construct_error(CtorArgs(ec, TRUE, msg))
    \/ read_code

SpecError == Init /\ [][NextError]_allVars

\* The comparison of every two error codes.
NextCodes ==
    \E x \in CodeSources : \E y \in CodeSources : compare_codes(x, y)

SpecCodes == Init /\ [][NextCodes]_allVars

\* The life of one slave whose caller also makes calls out of order; one
\* time interval, one step, one variable.
NextMisuse ==
    \/ model_description
    \/ setup(0, Eternity)
    \/ start_simulation
    \/ \E ok \in BOOLEAN : do_step(0, 1, ok)
    \/ end_simulation
    \/ get_variables("real", << 0 >>)
    \/ \E v \in ValuesOf("real") : set_variables("real", << 0 >>, << v >>)
    \/ \E op \in Methods : \E a \in ThrownErrors : method_throws(op, a)
    \/ \E op \in Methods : \E breaks \in BOOLEAN : out_of_order_call(op, breaks)

SpecMisuse == Init /\ [][NextMisuse]_allVars

\* Several instances driven by concurrent workers.
InstMethods ==
    { "setup", "set_variables", "start_simulation", "do_step", "end_simulation" }

Outcomes == { "true", "false", "throw" }

NextMulti ==
    \/ \E w \in Workers : \E i \in Instances : \E op \in InstMethods : begin_call(w, i, op)
    \/ \E w \in Workers : \E outcome \in Outcomes : end_call(w, outcome)

SpecMulti == Init /\ [][NextMulti]_allVars

\* ================================================================ claims
Rank(st) ==
    CASE st = "unconfigured" -> 0
      [] st = "initializing" -> 1
      [] st = "stepping"     -> 2
      [] st = "terminated"   -> 3
      [] st = "broken"       -> 4

LifecycleCalls == << "setup", "start_simulation", "end_simulation" >>

IsPrefix(s, t) == Len(s) <= Len(t) /\ s = SubSeq(t, 1, Len(s))

\* t occurs in s as a run of consecutive tokens
Contains(s, t) ==
    \E i \in 1..(Len(s) - Len(t) + 1) : SubSeq(s, i, i + Len(t) - 1) = t

\* Entry k of the set call c is one the slave can apply.
EntryOk(c, k) == entry_valid(c.kind, c.variables[k], c.values[k])

\* The set call c has an entry for variable i that the slave can apply.
Written(c, i) ==
    \E k \in 1..Len(c.variables) : c.variables[k] = i /\ EntryOk(c, k)

\* The value of the last entry of the set call c for variable i.
LastWritten(c, i) ==
    c.values[CHOOSE k \in 1..Len(c.variables) :
        /\ c.variables[k] = i
        /\ EntryOk(c, k)
        /\ \A m \in 1..Len(c.variables) :
                (c.variables[m] = i /\ EntryOk(c, m)) => m <= k]

\* C1: setup() returns only from unconfigured and leaves the slave
\* initializing, start_simulation() only from initializing and leaves it
\* stepping, end_simulation() only from stepping and leaves it terminated;
\* the calls that returned are a prefix of setup, start_simulation,
\* end_simulation and the lifecycle state never moves back.
LifecycleOrder ==
    [][ LET c == last' IN
        /\ (c.op = "setup" /\ ~c.raised) =>
                state = "unconfigured" /\ state' = "initializing"
        /\ (c.op = "start_simulation" /\ ~c.raised) =>
                state = "initializing" /\ state' = "stepping"
        /\ (c.op = "end_simulation" /\ ~c.raised) =>
                state = "stepping" /\ state' = "terminated"
        /\ Rank(state') >= Rank(state)
        /\ IsPrefix(calls', LifecycleCalls)
      ]_slaveVars

LifecycleOrderWitness ==
    state = "terminated" /\ calls = LifecycleCalls

\* C2 as stated: terminated and broken are terminal: no step leaves either
\* state; a method that throws leaves the slave broken, and on a broken
\* slave no further call is made.
TerminalStatesAsStated ==
    [][ /\ state \in {"terminated", "broken"} => state' = state
        /\ last'.raised => state' = "broken"
        /\ state = "broken" => (last' = last /\ vars' = vars /\ calls' = calls)
      ]_slaveVars

\* C2, amended: broken is terminal and terminated is left for broken only
\* (when a method called on the terminated slave throws); a method that
\* throws leaves the slave broken, and on a broken slave no further call
\* is made, so nothing of the slave changes any more.
TerminalStates ==
    [][ /\ state = "terminated" => state' \in {"terminated", "broken"}
        /\ state = "terminated" => (vars' = vars /\ calls' = calls)
        /\ last'.raised => state' = "broken"
        /\ state = "broken" =>
                (state' = state /\ last' = last /\ vars' = vars /\ calls' = calls)
      ]_slaveVars

TerminalStatesWitness ==
    /\ state = "broken"
    /\ last.raised
    /\ last.op = "do_step"
    /\ calls = << "setup", "start_simulation" >>

\* C3: every do_step(currentT, deltaT) that was carried out has
\* currentT >= startTime and, when stopTime is not eternity,
\* currentT + deltaT <= stopTime; a do_step beyond a finite stopTime is no
\* call the slave carries out, and with stopTime eternity a first step of
\* any length from any time point at or after startTime is.
StepsInsideInterval ==
    /\ lastStep # NoStep =>
            /\ lastStep.currentT >= startTime
            /\ stopTime # Eternity =>
                    lastStep.currentT + lastStep.deltaT <= stopTime
    /\ \A t \in TimePoints : \A d \in Durations :
            (stopTime # Eternity /\ t + d > stopTime) =>
                ~ENABLED do_step(t, d, TRUE)
    /\ \A t \in TimePoints : \A d \in Durations :
            ( /\ state = "stepping" /\ lastStep = NoStep
              /\ stopTime = Eternity /\ t >= startTime ) =>
                ENABLED do_step(t, d, TRUE)

\* setup(0, MaxTime), two steps that returned true, the second one ending
\* at the stop time.
StepsInsideIntervalWitness ==
    /\ startTime = 0
    /\ stopTime = MaxTime
    /\ prevStep # NoStep /\ prevStep.result
    /\ lastStep.result
    /\ lastStep.currentT + lastStep.deltaT = stopTime

PartialSetApplied ==
    [][ LET c == last' IN
        ( /\ c.op = "set_variables" /\ ~c.raised
          /\ \E k \in 1..Len(c.variables) : EntryOk(c, k)
          /\ \E k \in 1..Len(c.variables) : ~EntryOk(c, k) ) =>
            /\ c.result = FALSE
            /\ state' = state
            /\ \A kd \in Kinds : \A i \in VariableIndices(kd) :
                    vars'[kd][i] =
                        IF kd = c.kind /\ Written(c, i)
                            THEN LastWritten(c, i) ELSE vars[kd][i]
            /\ \A i \in VariableIndices(c.kind) :
                    Written(c, i) =>
                        get_values(vars', c.kind, << i >>) = << LastWritten(c, i) >>
      ]_slaveVars

PartialSetAppliedWitness ==
    /\ last.op = "set_variables" /\ ~last.raised /\ ~last.result
    /\ \E k \in 1..Len(last.variables) :
            /\ EntryOk(last, k)
            /\ last.values[k] # InitialValue(last.kind)
            /\ vars[last.kind][last.variables[k]] = last.values[k]

\* C7 as stated: after a set call that returned true, a get with the same
\* indices yields the values of the set call.
SetGetRoundTrip ==
    (last.op = "set_variables" /\ ~last.raised /\ last.result) =>
        get_values(vars, last.kind, last.variables) = last.values

\* No index occurs in the set call c with two different values.
NoConflict(c) ==
    \A j, k \in 1..Len(c.variables) :
        c.variables[j] = c.variables[k] => c.values[j] = c.values[k]

\* C7, amended: after a set call that returned true and in which no index
\* occurs with two different values, a get with the same indices yields
\* the values of the set call.
SetGetRoundTripNoConflict ==
    (last.op = "set_variables" /\ ~last.raised /\ last.result /\ NoConflict(last)) =>
        get_values(vars, last.kind, last.variables) = last.values

SetGetRoundTripWitness ==
    /\ last.op = "set_variables" /\ ~last.raised /\ last.result
    /\ Len(last.variables) = 2
    /\ last.variables[1] # last.variables[2]
    /\ last.values[1] # last.values[2]
    /\ get_values(vars, last.kind, last.variables) = last.values

\* C8: a get fills values[k] with the value of variable variables[k], for
\* every position k and every order of the indices; an index that occurs
\* twice yields the same value at both positions.
GetInOrder ==
    (last.op = "get_variables" /\ ~last.raised) =>
        /\ Len(last.values) = Len(last.variables)
        /\ \A k \in 1..Len(last.variables) :
                last.values[k] = vars[last.kind][last.variables[k]]
        /\ \A j, k \in 1..Len(last.variables) :
                last.variables[j] = last.variables[k] =>
                    last.values[j] = last.values[k]

GetInOrderWitness ==
    /\ last.op = "get_variables" /\ ~last.raised
    /\ last.variables = << 1, 0 >>
    /\ last.values[1] # last.values[2]

\* C9: a call either returns or throws; one that throws leaves the slave
\* broken with the exception thrown, one that returns does not, and a
\* false result comes only from do_step or a set call and leaves the
\* lifecycle state as it was.
TwoTierSignalling ==
    [][ LET c == last' IN
        /\ c.raised => (state' = "broken" /\ exc' # NoError /\ exc' = new_error(ctor'))
        /\ ~c.raised => (state' # "broken" /\ exc' = NoError)
        /\ (~c.raised /\ ~c.result) =>
                /\ c.op \in {"do_step", "set_variables"}
                /\ state' = state
      ]_slaveVars

TwoTierSignallingWitness ==
    /\ state = "stepping"
    /\ last.op = "do_step" /\ ~last.raised /\ ~last.result
    /\ exc = NoError

\* C10: the message of an error built from a code alone is the text of the
\* code's category for it (canonical_message for a code of this library);
\* built from a code and a message it is that text, ": " and the message,
\* so it contains the canonical text, and the message when one is given.
ErrorMessage ==
    ctor # NoArgs =>
        LET canon ==
                IF ctor.code.category = error_category
                    THEN canonical_message(errc[ctor.code.value + 1])
                    ELSE ec_message(ctor.code)
        IN  /\ ~ctor.with_msg => exc.what = canon
            /\ ctor.with_msg =>
                    /\ exc.what = canon \o << ": " >> \o ctor.msg
                    /\ Contains(exc.what, ctor.msg)
                    /\ SubSeq(exc.what, Len(canon) + 1, Len(canon) + 1) = << ": " >>
            /\ Contains(exc.what, canon)

ErrorMessageWitness ==
    /\ ctor = CtorArgs(make_error_code("zip_error"), TRUE, << "ctx" >>)
    /\ exc.what = canonical_message("zip_error") \o << ": ", "ctx" >>

\* C11: two error codes are equal iff category and value both match:
\* make_error_code(a) equals make_error_code(b) iff a = b, and a code of
\* this library never equals the generic code of the same integral value.
CodeEquality ==
    cmp # NoCmp =>
        /\ (cmp.lhs[1] = "errc" /\ cmp.rhs[1] = "errc") =>
                (cmp.equal <=> cmp.lhs[2] = cmp.rhs[2])
        /\ cmp.lhs[1] # cmp.rhs[1] => ~cmp.equal
        /\ cmp.equal <=> ( /\ code_of(cmp.lhs).category = code_of(cmp.rhs).category
                           /\ code_of(cmp.lhs).value = code_of(cmp.rhs).value )

\* make_error_code(bad_file) compared with the generic code of value 1.
CodeEqualityWitness ==
    /\ cmp.lhs = << "errc", "bad_file" >>
    /\ cmp.rhs = << "generic", "bad_file" >>
    /\ code_of(cmp.lhs).value = code_of(cmp.rhs).value
    /\ ~cmp.equal

\* C12 as stated: model_description() can be called in every lifecycle
\* state, broken included, and does not fail.
ModelDescriptionEverywhere ==
    /\ ENABLED model_description
    /\ last.op = "model_description" => ~last.raised

\* C12, amended: model_description() can be called in every lifecycle state
\* but broken; a call that returns changes neither the lifecycle state nor
\* a variable value nor the time interval nor the steps made; like every
\* method it may throw, and on a broken slave it is not called.
ModelDescriptionQuery ==
    [][ /\ state # "broken" => ENABLED model_description
        /\ state = "broken" => ~ENABLED model_description
        /\ (last'.op = "model_description" /\ ~last'.raised) =>
                UNCHANGED << state, startTime, stopTime, vars, lastStep,
                             prevStep, stepEnd, calls, exc, ctor >>
      ]_slaveVars

\* model_description() returned on a terminated slave that made steps.
ModelDescriptionQueryWitness ==
    /\ state = "terminated"
    /\ lastStep # NoStep
    /\ last.op = "model_description" /\ ~last.raised

\* C13: every bulk get or set call that was carried out has a variables
\* array and a values array of the same length, and a set call whose
\* arrays differ in length is no call the slave carries out: it neither
\* returns true or false nor changes a variable.
ArrayLengthsMatch ==
    /\ (last.op \in {"get_variables", "set_variables"} /\ ~last.raised) =>
            Len(last.variables) = Len(last.values)
    /\ \A kind \in Kinds : \A i \in SetIndices(kind) :
       \A v \in ValuesOf(kind) : \A w \in ValuesOf(kind) :
            /\ ~ENABLED set_variables(kind, << i >>, << v, w >>)
            /\ ~ENABLED set_variables(kind, << >>, << v >>)
            /\ ~ENABLED set_variables(kind, << i >>, << >>)

\* A set call and a get call of MaxLen entries, while set calls are being
\* accepted.
ArrayLengthsMatchWitness ==
    /\ state = "stepping"
    /\ last.op = "set_variables" /\ ~last.raised
    /\ Len(last.variables) = MaxLen /\ Len(last.values) = MaxLen

\* The call sequence of the class comment, state by state.
InOrderCall(st, op) ==
    CASE st = "unconfigured" -> op \in {"setup", "model_description"}
      [] st = "initializing" -> op \in {"get_variables", "set_variables",
                                        "start_simulation", "model_description"}
      [] st = "stepping"     -> op \in {"do_step", "get_variables", "set_variables",
                                        "end_simulation", "model_description"}
      [] st = "terminated"   -> op = "model_description"
      [] st = "broken"       -> FALSE

PhaseCalls ==
    /\ state \in {"initializing", "stepping"} =>
            /\ \A kind \in Kinds : \A i \in VariableIndices(kind) :
                    ENABLED get_variables(kind, << i >>)
            /\ \A kind \in Kinds : \A i \in SetIndices(kind) :
                    ENABLED set_variables(kind, << i >>, << InitialValue(kind) >>)
    /\ (last.op = "get_variables" /\ ~last.raised) =>
            /\ state \in {"initializing", "stepping"}
            /\ \A k \in 1..Len(last.variables) :
                    last.values[k] = vars[last.kind][last.variables[k]]
    /\ state # "stepping" =>
            \A t \in TimePoints : \A d \in Durations : \A ok \in BOOLEAN :
                    ~ENABLED do_step(t, d, ok)
    /\ last.op = "do_step" => state \in {"stepping", "broken"}

GetIsPureRead ==
    [][ (last'.op = "get_variables" /\ ~last'.raised) =>
            /\ UNCHANGED << state, vars, startTime, stopTime, lastStep, prevStep, stepEnd, calls >>
            /\ (/\ last.op = "get_variables" /\ ~last.raised
                /\ last.kind = last'.kind
                /\ last.variables = last'.variables) => last'.values = last.values
      ]_slaveVars

\* A get of MaxLen real variables, one of them changed by an earlier set,
\* while the slave is stepping.
GetIsPureReadWitness ==
    /\ state = "stepping"
    /\ last.op = "get_variables" /\ ~last.raised
    /\ last.kind = "real"
    /\ Len(last.variables) = MaxLen
    /\ last.values[1] = 25

\* C18: a do_step that returns false does not advance the simulation
\* time: the end of the last time step carried out is the same before and
\* after it. The time advances by do_step calls that return true only, and
\* only forward, to the end of the step made.
FailedStepKeepsTime ==
    [][ /\ (last'.op = "do_step" /\ ~last'.raised /\ ~last'.result) =>
                stepEnd' = stepEnd
        /\ stepEnd' # stepEnd =>
                /\ last'.op = "do_step" /\ ~last'.raised /\ last'.result
                /\ stepEnd' = last'.times[1] + last'.times[2]
                /\ stepEnd' > stepEnd
      ]_slaveVars

\* A step that was carried out, then a longer step from its end that was
\* not: the time stays at the end of the first.
FailedStepKeepsTimeWitness ==
    /\ prevStep # NoStep /\ prevStep.result
    /\ lastStep # NoStep /\ ~lastStep.result
    /\ last.op = "do_step" /\ ~last.result
    /\ stepEnd = prevStep.currentT + prevStep.deltaT
    /\ stepEnd = lastStep.currentT

\* C19: the time interval [startTime, stopTime] is fixed by the single
\* setup() call: setup() returns once at most, the interval is the one it
\* was given, and no operation made after it changes the interval.
IntervalFixedBySetup ==
    [][ /\ state # "unconfigured" =>
                (startTime' = startTime /\ stopTime' = stopTime)
        /\ << startTime', stopTime' >> # << startTime, stopTime >> =>
                /\ last'.op = "setup" /\ ~last'.raised
                /\ last'.times = << startTime', stopTime' >>
        /\ \A i \in 1..Len(calls') : calls'[i] = "setup" => i = 1
      ]_slaveVars

\* A run from MaxStart to MaxTime that was stepped to its stop time and
\* ended.
IntervalFixedBySetupWitness ==
    /\ state = "terminated"
    /\ startTime = MaxStart /\ stopTime = MaxTime
    /\ stepEnd = stopTime
    /\ last.op = "end_simulation"

\* C20: an error carries exactly the code it was constructed with,
\* whether or not a message was given and whether the code is one of this
\* library or a generic one: code() returns that code, and nothing but the
\* construction of another error changes the code or the message.
CodeCarried ==
    [][ /\ ctor' # NoArgs =>
                /\ exc'.code.category = ctor'.code.category
                /\ exc'.code.value = ctor'.code.value
        /\ seen' # seen => (seen' = ctor.code /\ exc' = exc)
        /\ ctor' = ctor => exc' = exc
      ]_allVars

\* code() called on an error built from a generic code and a message of
\* MaxLen tokens.
CodeCarriedWitness ==
    /\ ctor # NoArgs /\ ctor.with_msg /\ Len(ctor.msg) = MaxLen
    /\ ctor.code = generic_error_code(errc_value("model_error"))
    /\ seen = ctor.code
    /\ exc.code = seen

\* The workers with a call in flight on instance i.
InFlightOn(i) == { w \in Workers : inflight[w].inst = i }

\* C17: with several instances driven by concurrent workers, at most one
\* call is in flight on an instance at any time; a step changes the
\* lifecycle state, variable value or time of one instance at most, the one
\* whose call completes in that step; and the error category the instances
\* share is the same for every error thrown.
InstancesIndependent ==
    [][ /\ \A i \in Instances : Cardinality(InFlightOn(i)) <= 1
        /\ \A i \in Instances : insts'[i] # insts[i] =>
                /\ \E w \in InFlightOn(i) : inflight'[w] = NoFlight
                /\ \A j \in Instances \ {i} : insts'[j] = insts[j]
        /\ \A i \in Instances : insts'[i].state = "broken" =>
                insts'[i].code.category = error_category
      ]_allVars

\* Two workers have calls in flight on the two instances at once, the
\* instances being in different states.
InstancesIndependentWitness ==
    /\ inflight["w1"].inst = "s1" /\ inflight["w1"].op = "do_step"
    /\ inflight["w2"].inst = "s2" /\ inflight["w2"].op = "setup"
    /\ insts["s1"].state = "stepping" /\ insts["s1"].value = 25
    /\ insts["s2"].state = "unconfigured"

====
